---------------------------- MODULE Spec2Model ----------------------------
(***************************************************************************)
(* A model of the gmail_agent triage pipeline: the three agents            *)
(* (EmailClassifier, PriorityAnalyzer, ResponseDrafter), the LLM handler   *)
(* they call, and the Streamlit session that drives them (app.py).         *)
(*                                                                         *)
(* Text.  A Python str is modelled as a sequence of characters, each       *)
(* character a one-element TLA+ string.  The module is ASCII, so a Hangul  *)
(* syllable is written as its romanisation with the prefix "ko:" (the      *)
(* keyword spelled gin-geup in the source is <<"ko:gin", "ko:geup">>), the *)
(* full-width colon is "FWCOLON", newline is "NL".  A fixed Korean         *)
(* sentence that the code only stores and never inspects (a reason string, *)
(* an error message) is one pseudo-character naming the sentence.          *)
(*                                                                         *)
(* The model service is an oracle: each call to LLMHandler.generate draws  *)
(* its outcome (an exception, or a completion text) from a bounded set.    *)
(* Prompts influence nothing the program can observe and are not modelled. *)
(***************************************************************************)
EXTENDS Integers, Sequences, FiniteSets, TLC

VARIABLES
    api_key,          \* OPENAI_API_KEY is set in the environment
    authenticated,    \* st.session_state.authenticated
    emails,           \* st.session_state.emails
    analyzed_emails,  \* st.session_state.analyzed_emails
    rendered,         \* what the last handler rendered: none/warning/config/generic
    pc,               \* position of the running operation
    caller,           \* who invoked the running batch: analyze_emails or a direct call
    batch_in,         \* the list the running batch operation iterates over
    results,          \* the batch operation's local accumulator
    idx,              \* 1-based position of the batch loop in batch_in
    llm_log,          \* model calls made since the operation started, in order
    gmail_client,     \* st.session_state.gmail_client: unset, or a client with a service
    call,             \* direct invocation under test: the function and its arguments
    ret,              \* outcome of the direct invocation
    cause,            \* the exception at the origin of the error analyze_emails rendered last
    mail_log          \* requests the direct invocation made to the mail service, in order

vars == <<api_key, authenticated, emails, analyzed_emails, rendered, pc, caller,
          batch_in, results, idx, llm_log, gmail_client, call, ret, cause, mail_log>>

-----------------------------------------------------------------------------
(* Bounds of the model *)

\* longest completion text drawn for the parsers, in fragments
MaxFragments == 4
\* longest subject drawn for the urgency score, in words
MaxSubjectWords == 2
\* longest list handed to a batch operation or to sort/statistics
MaxBatch == 2
\* most messages the modelled inbox returns to one fetch
MaxInbox == 2
\* longest list handed to sort_by_priority
MaxSort == 3
\* longest list handed to get_response_stats
MaxStats == 4
\* most parts of a multipart payload
MaxParts == 2

-----------------------------------------------------------------------------
(* Python values *)

\* None: a value different from every str
None == <<"<None>">>
EmptyDict == [k \in {} |-> None]

\* dict.get(key, default)
Get(d, key, default) == IF key \in DOMAIN d THEN d[key] ELSE default

\* a faulty enrichment that blanks the snippet of the record it copies
Put_blanking(d, key, value) ==
    [k \in DOMAIN d \cup {key} |->
        IF k = key THEN value ELSE IF k = "snippet" THEN <<>> ELSE d[k]]

\* {**d, key: value}
Put(d, key, value) ==
    [k \in DOMAIN d \cup {key} |-> IF k = key THEN value ELSE d[k]]

\* truthiness of a str-or-None
Truthy(s) == s # None /\ s # <<>>

Min(a, b) == IF a <= b THEN a ELSE b

Returned(v, n) == [kind |-> "return", value |-> v, calls |-> n]
Raised(e, n) == [kind |-> "raise", exc |-> e, calls |-> n, origin |-> e]
\* raise e from the exception of g: str(e) quotes the exception it came from
RaisedFrom(e, g) == [kind |-> "raise", exc |-> e, calls |-> g.calls, origin |-> g.origin]

-----------------------------------------------------------------------------
(* Characters and str methods *)

UpperLetters == <<"A","B","C","D","E","F","G","H","I","J","K","L","M",
                  "N","O","P","Q","R","S","T","U","V","W","X","Y","Z">>
LowerLetters == <<"a","b","c","d","e","f","g","h","i","j","k","l","m",
                  "n","o","p","q","r","s","t","u","v","w","x","y","z">>
Digits == {"0","1","2","3","4","5","6","7","8","9"}
Hangul == {"ko:gin", "ko:geup", "ko:jeug", "ko:si", "ko:bul", "ko:man",
           "ko:hwan", "ko:o", "ko:ryu", "ko:ka", "ko:te", "ko:go", "ko:ri",
           "ko:i", "ko:yu", "ko:u", "ko:seon", "ko:sun", "ko:wi", "ko:ju",
           "ko:yo", "ko:in", "ko:an", "ko:nyeong"}

Range(s) == {s[i] : i \in DOMAIN s}

\* \s of the re module
IsSpace(c) == c \in {" ", "NL", "TAB"}
\* \w of the re module on str patterns: letters of any script, digits, underscore
IsWord(c) == c \in Range(UpperLetters) \cup Range(LowerLetters) \cup Digits
                   \cup Hangul \cup {"_"}

LowerChar(c) ==
    IF c \in Range(UpperLetters)
    THEN LowerLetters[CHOOSE i \in DOMAIN UpperLetters : UpperLetters[i] = c]
    ELSE c

\* str.lower()
Lower(s) == [i \in DOMAIN s |-> LowerChar(s[i])]

\* s[from:] as a sequence
Drop(s, n) == SubSeq(s, n + 1, Len(s))

\* number of leading / trailing whitespace characters
LeadingSpaces(s) ==
    IF \A i \in DOMAIN s : IsSpace(s[i]) THEN Len(s)
    ELSE (CHOOSE i \in DOMAIN s :
              ~IsSpace(s[i]) /\ \A j \in 1..(i - 1) : IsSpace(s[j])) - 1
TrailingSpaces(s) ==
    IF \A i \in DOMAIN s : IsSpace(s[i]) THEN Len(s)
    ELSE Len(s) - (CHOOSE i \in DOMAIN s :
              ~IsSpace(s[i]) /\ \A j \in (i + 1)..Len(s) : IsSpace(s[j]))

\* str.strip()
Strip(s) ==
    IF \A i \in DOMAIN s : IsSpace(s[i]) THEN <<>>
    ELSE SubSeq(s, LeadingSpaces(s) + 1, Len(s) - TrailingSpaces(s))

\* s[p : p + len(t)] == t
MatchesAt(t, s, p) ==
    /\ p + Len(t) - 1 <= Len(s)
    /\ \A i \in DOMAIN t : s[p + i - 1] = t[i]

\* t in s
Contains(t, s) == \E p \in 1..(Len(s) + 1) : MatchesAt(t, s, p)

\* first position at or after p holding a character outside the class, or Len(s) + 1
SkipSpaces(s, p) ==
    IF \A i \in p..Len(s) : IsSpace(s[i]) THEN Len(s) + 1
    ELSE CHOOSE i \in p..Len(s) : ~IsSpace(s[i]) /\ \A j \in p..(i - 1) : IsSpace(s[j])
SkipWord(s, p) ==
    IF \A i \in p..Len(s) : IsWord(s[i]) THEN Len(s) + 1
    ELSE CHOOSE i \in p..Len(s) : ~IsWord(s[i]) /\ \A j \in p..(i - 1) : IsWord(s[j])
SkipLine(s, p) ==
    IF \A i \in p..Len(s) : s[i] # "NL" THEN Len(s) + 1
    ELSE CHOOSE i \in p..Len(s) : s[i] = "NL" /\ \A j \in p..(i - 1) : s[j] # "NL"

IsColon(c) == c \in {":", "FWCOLON"}


\* re: a literal t followed by \s*, matched at p; the position after it, or 0
AfterLiteral(s, p, t) ==
    IF MatchesAt(t, s, p) THEN SkipSpaces(s, p + Len(t)) ELSE 0

\* re: [:FWCOLON] matched at p (p = 0: the prefix did not match); the position after it, or 0
AfterColon(s, p) ==
    IF p >= 1 /\ p <= Len(s) /\ IsColon(s[p]) THEN p + 1 ELSE 0

\* re: \s*(\w+) matched at p; the group, or None
WordGroup(s, p) ==
    LET r == SkipSpaces(s, p)
    IN  IF p >= 1 /\ r <= Len(s) /\ IsWord(s[r])
        THEN SubSeq(s, r, SkipWord(s, r) - 1)
        ELSE None

\* re: \s*(.+) matched at p; the group, or None.  "." is any character but
\* newline.  \s* is greedy: it gives whitespace back to the group only when
\* nothing but whitespace follows, and then as little as it can.
LineGroup(s, p) ==
    LET r == SkipSpaces(s, p)
        back == {t \in p..Len(s) : s[t] # "NL"}
    IN  IF p < 1 THEN None
        ELSE IF r <= Len(s) THEN SubSeq(s, r, SkipLine(s, r) - 1)
        ELSE IF back # {}
             THEN LET t == CHOOSE t \in back : \A u \in back : u <= t
                  IN  SubSeq(s, t, SkipLine(s, t) - 1)
        ELSE None

\* re.search reports the leftmost position where the pattern matches
Leftmost(hits) == CHOOSE p \in hits : \A q \in hits : p <= q

\* re: label\s*[:FWCOLON]\s*(\w+) matched at p; the group, or None
WordAfterLabel(s, p, label) == WordGroup(s, AfterColon(s, AfterLiteral(s, p, label)))

\* re: label\s*[:FWCOLON]\s*(.+) matched at p; the group, or None
LineAfterLabel(s, p, label) == LineGroup(s, AfterColon(s, AfterLiteral(s, p, label)))

\* re: first\s*label\s*[:FWCOLON]\s*(.+) matched at p; the group, or None
LineAfterLabels(s, p, first, label) ==
    IF MatchesAt(first, s, p)
    THEN LineAfterLabel(s, SkipSpaces(s, p + Len(first)), label)
    ELSE None

\* str.split(sep) for a one-character separator
RECURSIVE Split(_, _)
Split(s, sep) ==
    IF \A i \in DOMAIN s : s[i] # sep THEN <<s>>
    ELSE LET k == CHOOSE i \in DOMAIN s : s[i] = sep /\ \A j \in 1..(i - 1) : s[j] # sep
         IN  <<SubSeq(s, 1, k - 1)>> \o Split(Drop(s, k), sep)

NonEmpty(s) == s # <<>>

-----------------------------------------------------------------------------
(* config/gmail_config.py *)

\* one at most of the messages of a fetch
MAX_EMAILS == 50

s_urgent == <<"u","r","g","e","n","t">>
s_work == <<"w","o","r","k">>
s_marketing == <<"m","a","r","k","e","t","i","n","g">>
s_internal == <<"i","n","t","e","r","n","a","l">>
s_spam == <<"s","p","a","m">>
s_high == <<"h","i","g","h">>
s_medium == <<"m","e","d","i","u","m">>
s_low == <<"l","o","w">>

\* the keys of EMAIL_CATEGORIES and of PRIORITY_LEVELS
EMAIL_CATEGORIES == {s_urgent, s_work, s_marketing, s_internal, s_spam}
PRIORITY_LEVELS == {s_high, s_medium, s_low}

-----------------------------------------------------------------------------
(* utils/llm_handler.py *)

\* a faulty constructor that accepts an absent credential
LLMHandler_init_unchecked(key_present) == Returned("handler", 0)

\* LLMHandler.__init__: ValueError when the credential is absent
LLMHandler_init(key_present) ==
    IF ~key_present THEN Raised("ValueError", 0) ELSE Returned("handler", 0)

\* a faulty generate that sends a failed request a second time
generate_retrying(o) ==
    CASE o.kind = "text" -> Returned(Strip(o.content), 1)
      [] o.kind = "none" -> Raised("AttributeError", 2)
      [] o.kind = "unreachable" -> Raised("APIConnectionError", 2)
      [] OTHER -> Raised("APIError", 2)

\* LLMHandler.generate: one request to the model service.  The service
\* answers (o.kind = "text"), answers with no content (o.kind = "none", and
\* .strip() on None raises AttributeError), or fails (o.kind = "error"); every
\* exception is printed and raised again.
generate(o) ==
    CASE o.kind = "text" -> Returned(Strip(o.content), 1)
      [] o.kind = "none" -> Raised("AttributeError", 1)
      [] o.kind = "unreachable" -> Raised("APIConnectionError", 1)
      [] OTHER -> Raised("APIError", 1)

-----------------------------------------------------------------------------
(* agents/email_classifier.py *)

l_category == <<"ko:ka", "ko:te", "ko:go", "ko:ri">>
l_reason == <<"ko:i", "ko:yu">>
\* the reason used when the completion names none
DefaultReason == <<"<LLM classification result>">>

\* re.search(r'<category>\s*[:FWCOLON]\s*(\w+)', response): group(1), or None
CategoryGroupAt(response, hits) ==
    IF hits = {} THEN None ELSE WordAfterLabel(response, Leftmost(hits), l_category)
CategoryMatch(response) ==
    CategoryGroupAt(response,
        {p \in 1..Len(response) : WordAfterLabel(response, p, l_category) # None})

\* re.search(r'<reason>\s*[:FWCOLON]\s*(.+)', response): group(1), or None
ReasonGroupAt(response, hits) ==
    IF hits = {} THEN None ELSE LineAfterLabel(response, Leftmost(hits), l_reason)
ReasonMatch(response) ==
    ReasonGroupAt(response,
        {p \in 1..Len(response) : LineAfterLabel(response, p, l_reason) # None})

\* category_match.group(1) if category_match else None, then lower-cased
ParsedCategory(category_match) ==
    IF category_match # None THEN Lower(category_match) ELSE None

\* reason_match.group(1).strip() if reason_match else the default reason
ParsedReason(reason_match) ==
    IF reason_match # None THEN Strip(reason_match) ELSE DefaultReason

\* the body of _classify_with_llm's try on the outcome g of llm.generate:
\* (category, reason), any exception raised as ValueError
ParseClassification(g) ==
    IF g.kind = "raise" THEN RaisedFrom("ValueError", g)
    ELSE Returned([category |-> ParsedCategory(CategoryMatch(g.value)),
                   reason |-> ParsedReason(ReasonMatch(g.value))], g.calls)

\* _classify_with_llm
classify_with_llm(email, o) == ParseClassification(generate(o))

\* a faulty validity test that lets any non-empty category through
CategoryRejected_empty_only(category) == ~Truthy(category)

\* the validity test of classify on the parsed category
CategoryRejected(category) == ~Truthy(category) \/ category \notin EMAIL_CATEGORIES

\* classify after _classify_with_llm gave r: a classification record, or
\* ValueError.  confidence is the fixed 0.85, held in hundredths.
CheckedClassification(r) ==
    IF r.kind = "raise" THEN r
    ELSE IF CategoryRejected(r.value.category) THEN Raised("ValueError", r.calls)
    ELSE Returned([category |-> r.value.category,
                   confidence |-> 85,
                   reason |-> r.value.reason], r.calls)

\* classify
classify(email, o) == CheckedClassification(classify_with_llm(email, o))

-----------------------------------------------------------------------------
(* agents/priority_analyzer.py *)

l_priority == <<"ko:u", "ko:seon", "ko:sun", "ko:wi">>
l_key == <<"ko:ju", "ko:yo">>
l_factors == <<"ko:yo", "ko:in">>

\* re.search(r'<priority>\s*[:FWCOLON]\s*(\w+)', response): group(1), or None
PriorityGroupAt(response, hits) ==
    IF hits = {} THEN None ELSE WordAfterLabel(response, Leftmost(hits), l_priority)
PriorityMatch(response) ==
    PriorityGroupAt(response,
        {p \in 1..Len(response) : WordAfterLabel(response, p, l_priority) # None})

\* re.search(r'<key>\s*<factors>\s*[:FWCOLON]\s*(.+)', response): group(1), or None
FactorsGroupAt(response, hits) ==
    IF hits = {} THEN None
    ELSE LineAfterLabels(response, Leftmost(hits), l_key, l_factors)
FactorsMatch(response) ==
    FactorsGroupAt(response,
        {p \in 1..Len(response) : LineAfterLabels(response, p, l_key, l_factors) # None})

\* priority_match.group(1).lower() if priority_match else None
ParsedPriority(priority_match) ==
    IF priority_match # None THEN Lower(priority_match) ELSE None

\* [f.strip() for f in pieces if f.strip()]
StrippedNonEmpty(pieces) ==
    SelectSeq([i \in DOMAIN pieces |-> Strip(pieces[i])], NonEmpty)

\* the factors list made of factors_match
ParsedFactors(factors_match) ==
    StrippedNonEmpty(Split(IF factors_match # None THEN Strip(factors_match) ELSE <<>>, ","))

\* the body of _analyze_with_llm's try on the outcome g of llm.generate:
\* (priority, factors), any exception raised as ValueError
ParsePriority(g) ==
    IF g.kind = "raise" THEN RaisedFrom("ValueError", g)
    ELSE Returned([priority |-> ParsedPriority(PriorityMatch(g.value)),
                   factors |-> ParsedFactors(FactorsMatch(g.value))], g.calls)

\* _analyze_with_llm
analyze_with_llm(email, classification, o) == ParsePriority(generate(o))

\* urgent_keywords, in the order of the dict: <<keyword, points>>
urgent_keywords ==
    << <<(<<"ko:gin", "ko:geup">>), 2>>,
       <<(<<"ko:jeug", "ko:si">>), 2>>,
       <<s_urgent, 2>>,
       <<(<<"a","s","a","p">>), 2>>,
       <<(<<"ko:bul", "ko:man">>), 1>>,
       <<(<<"ko:hwan", "ko:bul">>), 1>>,
       <<(<<"ko:o", "ko:ryu">>), 1>>,
       <<(<<"e","r","r","o","r">>), 1>>,
       <<(<<"b","u","g">>), 1>> >>

\* base_scores.get(priority, 5)
BaseScore(priority) ==
    CASE priority = s_high -> 8
      [] priority = s_medium -> 5
      [] priority = s_low -> 2
      [] OTHER -> 5

\* a faulty loop that counts a keyword for the subject and again for the body
RECURSIVE KeywordPoints_each(_, _, _)
KeywordPoints_each(k, subject_lower, body_lower) ==
    IF k > Len(urgent_keywords) THEN 0
    ELSE (IF Contains(urgent_keywords[k][1], subject_lower)
          THEN urgent_keywords[k][2] ELSE 0)
         + (IF Contains(urgent_keywords[k][1], body_lower)
            THEN urgent_keywords[k][2] ELSE 0)
         + KeywordPoints_each(k + 1, subject_lower, body_lower)

\* the loop over urgent_keywords: the points of keywords k..last that occur
RECURSIVE KeywordPoints(_, _, _)
KeywordPoints(k, subject_lower, body_lower) ==
    IF k > Len(urgent_keywords) THEN 0
    ELSE (IF Contains(urgent_keywords[k][1], subject_lower)
             \/ Contains(urgent_keywords[k][1], body_lower)
          THEN urgent_keywords[k][2] ELSE 0)
         + KeywordPoints(k + 1, subject_lower, body_lower)

\* a faulty score that is not capped at 10
calculate_urgency_score_uncapped(email, priority) ==
    BaseScore(priority) + KeywordPoints(1, Lower(email.subject), Lower(email.body))

\* _calculate_urgency_score
calculate_urgency_score(email, priority) ==
    Min(BaseScore(priority)
          + KeywordPoints(1, Lower(email.subject), Lower(email.body)),
        10)

\* the validity test of analyze on the parsed priority
PriorityRejected(priority) == ~Truthy(priority) \/ priority \notin PRIORITY_LEVELS

\* analyze after _analyze_with_llm gave r: a priority record, or ValueError
CheckedPriority(email, r) ==
    IF r.kind = "raise" THEN r
    ELSE IF PriorityRejected(r.value.priority) THEN Raised("ValueError", r.calls)
    ELSE Returned([priority |-> r.value.priority,
                   urgency_score |-> calculate_urgency_score(email, r.value.priority),
                   factors |-> r.value.factors], r.calls)

\* analyze
analyze(email, classification, o) ==
    CheckedPriority(email, analyze_with_llm(email, classification, o))

\* priority_order.get(priority, 2)
PriorityOrder(priority) ==
    CASE priority = s_high -> 3
      [] priority = s_medium -> 2
      [] priority = s_low -> 1
      [] OTHER -> 2

\* the sort key of sort_by_priority: <<weight, urgency_score>>
SortKey(x) ==
    LET pa == Get(x, "priority_analysis", EmptyDict)
    IN  <<PriorityOrder(Get(pa, "priority", s_medium)), Get(pa, "urgency_score", 5)>>

\* tuple comparison: a < b
KeyLess(a, b) == a[1] < b[1] \/ (a[1] = b[1] /\ a[2] < b[2])

\* a faulty insertion that puts x in front of the elements with an equal key
InsertDesc_unstable(placed, x) ==
    LET n == Cardinality({i \in DOMAIN placed : KeyLess(SortKey(x), SortKey(placed[i]))})
    IN  SubSeq(placed, 1, n) \o <<x>> \o SubSeq(placed, n + 1, Len(placed))

\* where sorted(..., reverse=True) puts x among the already placed: behind
\* every element whose key is not smaller (equal keys keep their input order)
InsertDesc(placed, x) ==
    LET n == Cardinality({i \in DOMAIN placed : ~KeyLess(SortKey(placed[i]), SortKey(x))})
    IN  SubSeq(placed, 1, n) \o <<x>> \o SubSeq(placed, n + 1, Len(placed))

RECURSIVE SortDesc(_, _)
SortDesc(placed, rest) ==
    IF rest = <<>> THEN placed
    ELSE SortDesc(InsertDesc(placed, Head(rest)), Tail(rest))

\* sort_by_priority: a new list, the input untouched
sort_by_priority(xs) == SortDesc(<<>>, xs)

-----------------------------------------------------------------------------
(* agents/response_drafter.py *)

s_formal == <<"f","o","r","m","a","l">>
s_friendly == <<"f","r","i","e","n","d","l","y">>
s_re == <<"R","e",":"," ">>
\* the two fixed reason sentences of draft_response
ReasonNoResponse == <<"<no response is needed for this email>">>
ReasonDrafted == <<"<a response draft was generated>">>

\* a faulty tone selection that tests the internal category first
select_tone_internal_first(category, priority) ==
    IF category = s_internal THEN s_friendly ELSE s_formal

\* _select_tone
select_tone(category, priority) ==
    IF category = s_urgent \/ priority = s_high THEN s_formal
    ELSE IF category = s_internal THEN s_friendly
    ELSE s_formal

\* the body of _generate_draft_with_llm's try on the outcome g of
\* llm.generate: the stripped completion, any exception raised as ValueError
StrippedDraft(g) ==
    IF g.kind = "raise" THEN RaisedFrom("ValueError", g)
    ELSE Returned(Strip(g.value), g.calls)

\* _generate_draft_with_llm
generate_draft_with_llm(email, classification, priority_analysis, tone, o) ==
    StrippedDraft(generate(o))

\* a faulty short-circuit that leaves marketing out
NoResponseCategories_spam_only == {s_spam}

\* the categories draft_response answers without a model call
NoResponseCategories == {s_spam, s_marketing}

\* a faulty check that lets an empty draft through
CheckedDraft_any(email, tone, d) ==
    IF d.kind = "raise" THEN d
    ELSE Returned([draft |-> d.value,
                   tone |-> tone,
                   suggested_subject |-> s_re \o email.subject,
                   should_respond |-> TRUE,
                   reason |-> ReasonDrafted], d.calls)

\* draft_response after _generate_draft_with_llm gave d
CheckedDraft(email, tone, d) ==
    IF d.kind = "raise" THEN d
    ELSE IF ~Truthy(d.value) THEN Raised("ValueError", d.calls)
    ELSE Returned([draft |-> d.value,
                   tone |-> tone,
                   suggested_subject |-> s_re \o email.subject,
                   should_respond |-> TRUE,
                   reason |-> ReasonDrafted], d.calls)

\* draft_response from the tone selection on
DraftWithTone(email, classification, priority_analysis, tone, o) ==
    CheckedDraft(email, tone,
        generate_draft_with_llm(email, classification, priority_analysis, tone, o))

\* draft_response on the category and priority it read
DraftFor(email, classification, priority_analysis, category, priority, o) ==
    IF category \in NoResponseCategories
    THEN Returned([draft |-> None,
                   tone |-> None,
                   suggested_subject |-> None,
                   should_respond |-> FALSE,
                   reason |-> ReasonNoResponse], 0)
    ELSE DraftWithTone(email, classification, priority_analysis,
                       select_tone(category, priority), o)

\* draft_response
draft_response(email, classification, priority_analysis, o) ==
    DraftFor(email, classification, priority_analysis,
             Get(classification, "category", s_work),
             Get(priority_analysis, "priority", s_medium), o)

\* number of records of drafted_emails[1..n] whose response_draft says should_respond
RECURSIVE CountRespond(_, _)
CountRespond(drafted_emails, n) ==
    IF n = 0 THEN 0
    ELSE CountRespond(drafted_emails, n - 1)
         + (IF Get(Get(drafted_emails[n], "response_draft", EmptyDict),
                   "should_respond", FALSE)
            THEN 1 ELSE 0)

\* a faulty rate that truncates to the tenth below
RoundedRate_truncated(need, total) == (need * 1000) \div total

\* round(need / total * 100, 1), in tenths of a percent: the nearest tenth,
\* an exact half going to the even tenth
RoundedRate(need, total) ==
    LET q == (need * 1000) \div total
        r == (need * 1000) % total
    IN  IF 2 * r > total \/ (2 * r = total /\ q % 2 = 1) THEN q + 1 ELSE q

\* get_response_stats; response_rate is held in tenths of a percent (75.0 is 750)
get_response_stats(drafted_emails) ==
    LET total == Len(drafted_emails)
        need_response == CountRespond(drafted_emails, total)
    IN  Returned([total |-> total,
                  need_response |-> need_response,
                  no_response |-> total - need_response,
                  response_rate |-> IF total > 0 THEN RoundedRate(need_response, total)
                                    ELSE 0], 0)

\* a faulty refinement that lets the failure of the model call out
RefinedOr_raising(original_draft, g) ==
    IF g.kind = "raise" THEN Raised("ValueError", g.calls)
    ELSE Returned(Strip(g.value), g.calls)

\* refine_draft on the outcome g of llm.generate: the stripped completion, or
\* the original draft when the call raised
RefinedOr(original_draft, g) ==
    IF g.kind = "raise" THEN Returned(original_draft, g.calls)
    ELSE Returned(Strip(g.value), g.calls)

\* refine_draft
refine_draft(original_draft, user_feedback, o) == RefinedOr(original_draft, generate(o))

-----------------------------------------------------------------------------
(* The inputs the model draws from *)

\* the concatenation of a sequence of texts
RECURSIVE Flatten(_)
Flatten(ts) == IF ts = <<>> THEN <<>> ELSE Head(ts) \o Flatten(Tail(ts))

\* every text made of at most n fragments
TextsOf(fragments, n) ==
    {Flatten(fs) : fs \in UNION {[1..k -> fragments] : k \in 0..n}}

w_hello == <<"h","e","l","l","o">>
w_debug == <<"d","e","b","u","g">>
w_URGENT == <<"U","R","G","E","N","T">>
w_refund == <<"ko:hwan", "ko:bul">>
w_greeting == <<"ko:an", "ko:nyeong">>

Message(id, subject, body) ==
    [id |-> id, subject |-> subject, from |-> <<"a","@","b">>,
     date |-> <<"1">>, body |-> body, snippet |-> SubSeq(body, 1, Min(Len(body), 3))]

\* the messages of the modelled inbox
m1 == Message("m1", w_URGENT, <<"e","r","r","o","r"," ","b","u","g">>)
m2 == Message("m2", w_hello, w_hello)
m3 == Message("m3", w_refund, <<"a","s","a","p"," ">> \o w_debug)
Pool == {m1, m2, m3}

\* lists of at most n elements of a set, and those without repetition
ListsOf(S, n) == UNION {[1..k -> S] : k \in 0..n}
DistinctListsOf(S, n) ==
    {l \in ListsOf(S, n) : \A i, j \in DOMAIN l : i # j => l[i] # l[j]}

Text(content) == [kind |-> "text", content |-> content]
Failure == [kind |-> "error"]
Unreachable == [kind |-> "unreachable"]
NoContent == [kind |-> "none"]

\* completions the model service gives a classification request of the pipeline
ClassifyOutcomes ==
    {Text(l_category \o <<":", " ">> \o c \o <<"NL">> \o l_reason \o <<":", " ">> \o w_hello)
        : c \in {w_URGENT, <<"W","o","r","k">>, s_marketing, s_internal, s_spam}}
    \cup {Text(l_category \o <<":", " ", "[">> \o s_work \o <<"]">>), Failure, Unreachable}

\* completions the model service gives a priority request of the pipeline
AnalyzeOutcomes ==
    {Text(l_priority \o <<"FWCOLON">> \o c \o <<"NL">> \o l_key \o <<" ">> \o l_factors
          \o <<":", " ">> \o w_hello \o <<",", " ", ",">> \o w_debug)
        : c \in {<<"H","i","g","h">>, s_medium, s_low}}
    \cup {Text(w_hello), Failure, Unreachable}

\* completions the model service gives a drafting or refinement request
DraftOutcomes ==
    {Text(<<" ">> \o w_greeting \o <<" ">> \o w_hello \o <<"NL">>),
     Text(<<" ", "NL">>), Text(<<>>), NoContent, Failure, Unreachable}

-----------------------------------------------------------------------------
(* utils/gmail_client.py *)

\* what authenticate finds on disk and how the Google services answer:
\* token_file (token.json exists), the stored credential's valid / expired /
\* refresh_token, credentials_file (credentials.json exists), and whether the
\* refresh and the interactive flow succeed.  A credential is never both
\* valid and expired.
AuthEnvironments ==
    {e \in [token_file : BOOLEAN, valid : BOOLEAN, expired : BOOLEAN,
            refresh_token : BOOLEAN, credentials_file : BOOLEAN,
            refresh_ok : BOOLEAN, flow_ok : BOOLEAN] : ~(e.valid /\ e.expired)}

AuthResult(kind, exc, service, refreshed, flow, saved) ==
    [kind |-> kind, exc |-> exc, service |-> service,
     refreshed |-> refreshed, flow |-> flow, saved |-> saved]

\* a faulty authenticate that does not look at the stored credential
authenticate_anew(e) ==
    IF ~e.credentials_file
    THEN AuthResult("raise", "FileNotFoundError", FALSE, FALSE, FALSE, FALSE)
    ELSE IF e.flow_ok
         THEN AuthResult("return", "-", TRUE, FALSE, TRUE, TRUE)
         ELSE AuthResult("raise", "Exception", FALSE, FALSE, TRUE, FALSE)

\* GmailClient.authenticate on a fresh client (self.creds is None)
authenticate(e) ==
    LET has_creds == e.token_file
    IN  IF has_creds /\ e.valid
        THEN AuthResult("return", "-", TRUE, FALSE, FALSE, FALSE)
        ELSE IF has_creds /\ e.expired /\ e.refresh_token
        THEN IF e.refresh_ok
             THEN AuthResult("return", "-", TRUE, TRUE, FALSE, TRUE)
             ELSE AuthResult("raise", "RefreshError", FALSE, TRUE, FALSE, FALSE)
        ELSE IF ~e.credentials_file
        THEN AuthResult("raise", "FileNotFoundError", FALSE, FALSE, FALSE, FALSE)
        ELSE IF e.flow_ok
             THEN AuthResult("return", "-", TRUE, FALSE, TRUE, TRUE)
             ELSE AuthResult("raise", "Exception", FALSE, FALSE, TRUE, FALSE)

\* the mail service as a fetch finds it: the list request fails with an
\* HttpError, or the inbox holds messages, newest first, and the detail
\* request fails for those in broken
Listings ==
    {[kind |-> "error"]}
    \cup UNION {{[kind |-> "list", messages |-> l, broken |-> b] :
                    b \in SUBSET {l[i].id : i \in DOMAIN l}} :
                l \in DistinctListsOf(Pool, MaxInbox)}

\* a faulty request that passes the requested count on as it is
ListRequest_unclamped(max_results) == max_results

\* the maxResults get_emails sends with its list request
ListRequest(max_results) == Min(max_results, MAX_EMAILS)

\* messages().list(maxResults = n): the service lists the first n messages of
\* the inbox, or all of them when there are fewer
Listed(listing, n) == SubSeq(listing.messages, 1, Min(Len(listing.messages), n))

\* the loop over the listed messages: _get_email_detail gives None for a
\* message whose request failed, and None is left out
Detailed(listing, messages) ==
    SelectSeq(messages, LAMBDA m : m.id \notin listing.broken)

\* GmailClient.get_emails: ValueError before authenticate, the HttpError of
\* the list request, or the records of the listed messages in the order listed
get_emails(client, max_results, listing) ==
    IF client # "connected" THEN Raised("ValueError", 0)
    ELSE IF listing.kind = "error" THEN Raised("HttpError", 0)
    ELSE Returned(Detailed(listing, Listed(listing, ListRequest(max_results))), 0)

\* the requests get_emails sends to the mail service, in order
mail_requests(client, max_results, listing) ==
    IF client # "connected" THEN <<>>
    ELSE <<<<"list", ListRequest(max_results)>>>>
         \o (IF listing.kind = "error" THEN <<>>
             ELSE LET listed == Listed(listing, ListRequest(max_results))
                  IN  [i \in DOMAIN listed |-> <<"get", listed[i].id>>])

\* the data of a payload body: text in its base64url encoding
B64(text) == [b64 |-> text]
\* base64.urlsafe_b64decode(data).decode('utf-8')
b64decode(data) == data.b64

\* markup as BeautifulSoup reads it: characters, tags, script elements
HtmlTags == {"<p>", "</p>", "<b>", "</b>"}

\* soup.get_text() after the script and style elements were removed: the
\* characters outside tags and outside script elements
RECURSIVE get_text(_, _, _)
get_text(html, i, in_script) ==
    IF i > Len(html) THEN <<>>
    ELSE IF html[i] = "<script>" THEN get_text(html, i + 1, TRUE)
    ELSE IF html[i] = "</script>" THEN get_text(html, i + 1, FALSE)
    ELSE IF in_script \/ html[i] \in HtmlTags THEN get_text(html, i + 1, in_script)
    ELSE <<html[i]>> \o get_text(html, i + 1, in_script)

\* the phrases of a text: its lines, each split at every two spaces
RECURSIVE Phrases(_, _, _)
Phrases(text, i, phrase) ==
    IF i > Len(text) THEN <<phrase>>
    ELSE IF text[i] = "NL" THEN <<phrase>> \o Phrases(text, i + 1, <<>>)
    ELSE IF text[i] = " " /\ i < Len(text) /\ text[i + 1] = " "
         THEN <<phrase>> \o Phrases(text, i + 2, <<>>)
    ELSE Phrases(text, i + 1, Append(phrase, text[i]))

\* ' '.join(chunks)
RECURSIVE Joined(_)
Joined(chunks) ==
    IF chunks = <<>> THEN <<>>
    ELSE IF Len(chunks) = 1 THEN chunks[1]
    ELSE chunks[1] \o <<" ">> \o Joined(Tail(chunks))

\* GmailClient._html_to_text
html_to_text(html) == Joined(StrippedNonEmpty(Phrases(get_text(html, 1, FALSE), 1, <<>>)))

\* the body a part gives, when it is a text part with data
PartBody(part) ==
    IF part.mimeType = "text/html" THEN html_to_text(b64decode(part.body.data))
    ELSE b64decode(part.body.data)

\* the loop over the parts: the first text/plain or text/html part that has
\* data gives the body and ends the loop
RECURSIVE FirstTextPart(_, _)
FirstTextPart(parts, i) ==
    IF i > Len(parts) THEN <<>>
    ELSE IF /\ parts[i].mimeType \in {"text/plain", "text/html"}
            /\ "data" \in DOMAIN parts[i].body
         THEN PartBody(parts[i])
    ELSE FirstTextPart(parts, i + 1)

\* GmailClient._get_email_body
get_email_body(payload) ==
    Strip(IF "parts" \in DOMAIN payload THEN FirstTextPart(payload.parts, 1)
          ELSE IF "data" \in DOMAIN payload.body THEN PartBody(payload)
          ELSE <<>>)

\* the values of the sidebar slider: 5 to 50 in steps of 5
SliderValues == {5 * k : k \in 1..10}

-----------------------------------------------------------------------------
(* app.py: the session *)

Idle == pc = "idle"

NoBatch == /\ batch_in' = <<>>
           /\ results' = <<>>
           /\ idx' = 0

\* the connect button's handler after authenticate gave a: the client is
\* stored and the session marked, or the error is rendered
Connected(a) ==
    IF a.kind = "return"
    THEN /\ gmail_client' = "connected"
         /\ authenticated' = TRUE
         /\ rendered' = "connected"
    ELSE /\ rendered' = (IF a.exc = "FileNotFoundError"
                         THEN "setup_guide" ELSE "auth_error")
         /\ UNCHANGED <<gmail_client, authenticated>>

\* main, the connect button: authenticate, then mark the session
Connect ==
    /\ Idle /\ ~authenticated
    /\ \E e \in AuthEnvironments : Connected(authenticate(e))
    /\ UNCHANGED <<mail_log, cause, api_key, emails, analyzed_emails, pc, caller, batch_in, results,
                   idx, llm_log, call, ret>>

\* a faulty reconnect button that keeps the analysis results
Reconnect_keeping ==
    /\ Idle /\ authenticated
    /\ authenticated' = FALSE
    /\ emails' = <<>>
    /\ rendered' = "none"
    /\ UNCHANGED <<mail_log, cause, api_key, analyzed_emails, pc, caller, batch_in, results,
                   idx, llm_log, gmail_client, call, ret>>

\* main, the reconnect button
Reconnect ==
    /\ Idle /\ authenticated
    /\ authenticated' = FALSE
    /\ emails' = <<>>
    /\ analyzed_emails' = <<>>
    /\ rendered' = "none"
    /\ UNCHANGED <<mail_log, cause, api_key, pc, caller, batch_in, results, idx, llm_log,
                   gmail_client, call, ret>>

\* main, the refresh button
Refresh ==
    /\ Idle /\ authenticated /\ emails # <<>>
    /\ emails' = <<>>
    /\ analyzed_emails' = <<>>
    /\ rendered' = "none"
    /\ UNCHANGED <<mail_log, cause, api_key, authenticated, pc, caller, batch_in, results, idx,
                   llm_log, gmail_client, call, ret>>

\* analyze_emails' two except clauses
RenderedFor(exc) == IF exc = "ValueError" THEN "config" ELSE "generic"

\* main, the start button: analyze_emails up to its call of batch_classify
AnalyzeStart ==
    /\ Idle /\ authenticated /\ emails = <<>>
    /\ llm_log' = <<>>
    /\ \E f \in {get_emails(gmail_client, num_emails, listing) :
                    num_emails \in SliderValues, listing \in Listings} :
          LET h == LLMHandler_init(api_key)
          IN  IF h.kind = "raise"
              THEN /\ rendered' = RenderedFor(h.exc)
                   /\ cause' = h.origin
                   /\ UNCHANGED <<emails, pc, caller, batch_in, results, idx>>
              ELSE IF f.kind = "raise"
              THEN /\ rendered' = RenderedFor(f.exc)
                   /\ cause' = f.origin
                   /\ UNCHANGED <<emails, pc, caller, batch_in, results, idx>>
              ELSE IF f.value = <<>>
              THEN /\ rendered' = "warning"
                   /\ cause' = "none"
                   /\ UNCHANGED <<emails, pc, caller, batch_in, results, idx>>
              ELSE /\ emails' = f.value
                   /\ rendered' = "progress"
                   /\ cause' = "none"
                   /\ pc' = "batch_classify"
                   /\ caller' = "analyze_emails"
                   /\ batch_in' = f.value
                   /\ results' = <<>>
                   /\ idx' = 1
    /\ UNCHANGED <<mail_log, api_key, authenticated, analyzed_emails, gmail_client, call, ret>>

-----------------------------------------------------------------------------
(* The batch operations, one loop iteration at a time *)

\* a faulty log in which a later call is put in front of the earlier ones
Logged_in_front(stage, email, n) ==
    [i \in 1..n |-> <<stage, email.id>>] \o llm_log

\* the model calls of one agent method on one message, appended to the log
Logged(stage, email, n) ==
    llm_log \o [i \in 1..n |-> <<stage, email.id>>]

\* a faulty loop that isolates the failure: the failing message is skipped
\* and the loop goes on with the next one
Propagate_isolated(exc) ==
    /\ idx' = idx + 1
    /\ UNCHANGED <<mail_log, api_key, authenticated, emails, analyzed_emails, rendered, pc,
                   caller, batch_in, results, gmail_client, call, ret>>

\* an exception leaves the running batch operation: analyze_emails catches
\* it and renders it; a direct caller receives it
Propagate(exc) ==
    /\ NoBatch
    /\ IF caller = "analyze_emails"
       THEN /\ pc' = "idle"
            /\ rendered' = RenderedFor(exc)
            /\ ret' = ret
       ELSE /\ pc' = "done"
            /\ rendered' = rendered
            /\ ret' = [kind |-> "raise", exc |-> exc]
    /\ UNCHANGED <<mail_log, api_key, authenticated, emails, analyzed_emails, caller,
                   gmail_client, call>>

\* a faulty loop body that puts the record in front of the earlier ones
Proceed_prepending(record) ==
    /\ results' = <<record>> \o results
    /\ idx' = idx + 1
    /\ UNCHANGED <<mail_log, api_key, authenticated, emails, analyzed_emails, rendered, pc,
                   caller, batch_in, gmail_client, call, ret>>

\* the loop body appended a record and moves to the next message
Proceed(record) ==
    /\ results' = Append(results, record)
    /\ idx' = idx + 1
    /\ UNCHANGED <<mail_log, api_key, authenticated, emails, analyzed_emails, rendered, pc,
                   caller, batch_in, gmail_client, call, ret>>

\* the loop is over and the list is returned to a direct caller
ReturnDirect ==
    /\ pc' = "done"
    /\ ret' = [kind |-> "return", value |-> results]
    /\ NoBatch
    /\ UNCHANGED <<mail_log, cause, api_key, authenticated, emails, analyzed_emails, rendered,
                   caller, llm_log, gmail_client, call>>

\* analyze_emails hands the list a stage returned to the next stage
NextStage(stage) ==
    /\ pc' = stage
    /\ batch_in' = results
    /\ results' = <<>>
    /\ idx' = 1
    /\ UNCHANGED <<mail_log, cause, api_key, authenticated, emails, analyzed_emails, rendered,
                   caller, llm_log, gmail_client, call, ret>>

\* one loop body: the agent method gave r for the message; r's model calls
\* are logged, and r is appended under field or its exception propagates
Iterate(email, stage, field, r) ==
    /\ llm_log' = Logged(stage, email, r.calls)
    /\ cause' = (IF r.kind = "raise" /\ caller = "analyze_emails" THEN r.origin ELSE cause)
    /\ IF r.kind = "raise" THEN Propagate(r.exc)
       ELSE Proceed(Put(email, field, r.value))

\* batch_classify, one iteration
ClassifyIter ==
    /\ pc = "batch_classify" /\ idx <= Len(batch_in)
    /\ \E o \in ClassifyOutcomes :
          Iterate(batch_in[idx], "classify", "classification",
                  classify(batch_in[idx], o))

\* batch_classify, return results
ClassifyReturn ==
    /\ pc = "batch_classify" /\ idx > Len(batch_in)
    /\ IF caller = "analyze_emails" THEN NextStage("batch_analyze") ELSE ReturnDirect

\* batch_analyze, one iteration
AnalyzeIter ==
    /\ pc = "batch_analyze" /\ idx <= Len(batch_in)
    /\ \E o \in AnalyzeOutcomes :
          Iterate(batch_in[idx], "analyze", "priority_analysis",
                  analyze(batch_in[idx], Get(batch_in[idx], "classification", EmptyDict), o))

\* batch_analyze, return results
AnalyzeReturn ==
    /\ pc = "batch_analyze" /\ idx > Len(batch_in)
    /\ IF caller = "analyze_emails" THEN NextStage("batch_draft") ELSE ReturnDirect

\* batch_draft, one iteration
DraftIter ==
    /\ pc = "batch_draft" /\ idx <= Len(batch_in)
    /\ \E o \in DraftOutcomes :
          Iterate(batch_in[idx], "draft", "response_draft",
                  draft_response(batch_in[idx],
                                 Get(batch_in[idx], "classification", EmptyDict),
                                 Get(batch_in[idx], "priority_analysis", EmptyDict), o))

\* analyze_emails after batch_draft: sort, store, rerun
StoreSorted ==
    /\ analyzed_emails' = sort_by_priority(results)
    /\ pc' = "idle"
    /\ rendered' = "none"
    /\ NoBatch
    /\ UNCHANGED <<mail_log, cause, api_key, authenticated, emails, caller, llm_log, gmail_client,
                   call, ret>>

\* batch_draft, return results
DraftReturn ==
    /\ pc = "batch_draft" /\ idx > Len(batch_in)
    /\ IF caller = "analyze_emails" THEN StoreSorted ELSE ReturnDirect

-----------------------------------------------------------------------------
(* Direct invocations of the agents' operations *)

\* fragments of the completions drawn for classify and for analyze
ClassifyFragments ==
    {l_category, <<" ">>, <<":">>, <<"FWCOLON">>, <<"W","o","r","k">>,
     <<"S","P","A","M">>, <<"p","e","r","s","o","n","a","l">>, <<"[">>}
AnalyzeFragments ==
    {l_priority, <<" ">>, <<":">>, <<"NL">>, <<"H","i","g","h">>, <<"l","a","t","e","r">>}

OutcomesOf(fragments) ==
    {Text(t) : t \in TextsOf(fragments, MaxFragments)} \cup {Failure, NoContent}

\* a body holding exactly the urgency keywords numbered in K, space-separated
RECURSIVE BodyOf(_, _)
BodyOf(K, k) ==
    IF k > Len(urgent_keywords) THEN <<>>
    ELSE (IF k \in K THEN urgent_keywords[k][1] \o <<" ">> ELSE <<>>) \o BodyOf(K, k + 1)

SubjectWords == {w_URGENT \o <<" ">>, w_debug \o <<" ">>, w_hello \o <<" ">>,
                 w_refund \o <<" ">>}

\* messages for the urgency score: every set of keywords in the body, under
\* subjects of at most MaxSubjectWords words
Corpus ==
    {Message("c", subject, BodyOf(K, 1)) :
        subject \in TextsOf(SubjectWords, MaxSubjectWords),
        K \in SUBSET (1..Len(urgent_keywords))}

PriorityCompletions ==
    {Text(l_priority \o <<":", " ">> \o c) : c \in {<<"H","i","g","h">>, s_medium, <<"L","O","W">>}}

Classification(c) == [category |-> c, confidence |-> 85, reason |-> DefaultReason]
PriorityAnalysis(p, score) == [priority |-> p, urgency_score |-> score, factors |-> <<>>]
ResponseDraft(flag) ==
    [draft |-> None, tone |-> None, suggested_subject |-> None,
     should_respond |-> flag, reason |-> ReasonNoResponse]

ClassifyCalls ==
    {[fn |-> "classify", email |-> m1, llm |-> o] : o \in OutcomesOf(ClassifyFragments)}

AnalyzeCalls ==
    {[fn |-> "analyze", email |-> m, classification |-> Classification(s_work), llm |-> o] :
        m \in Pool, o \in OutcomesOf(AnalyzeFragments)}

\* analyze over the messages of the urgency corpus
UrgencyCalls ==
    {[fn |-> "analyze", email |-> m, classification |-> EmptyDict, llm |-> o] :
        m \in Corpus, o \in PriorityCompletions}

DraftCalls ==
    {[fn |-> "draft_response", email |-> m, classification |-> c,
      priority_analysis |-> pa, llm |-> o] :
        m \in Pool,
        c \in {Classification(x) : x \in EMAIL_CATEGORIES} \cup {EmptyDict},
        pa \in {PriorityAnalysis(x, BaseScore(x)) : x \in PRIORITY_LEVELS} \cup {EmptyDict},
        o \in DraftOutcomes}

ToneCalls ==
    {[fn |-> "select_tone", category |-> c, priority |-> p] :
        c \in EMAIL_CATEGORIES \cup {w_hello}, p \in PRIORITY_LEVELS \cup {w_hello}}

\* the keys a list handed to sort_by_priority is drawn from; a None priority
\* stands for a record without priority_analysis
SortKeys == {<<s_high, 5>>, <<s_high, 10>>, <<s_medium, 5>>, <<s_medium, 9>>,
             <<s_low, 2>>, <<None, 0>>}
SortRecord(i, k) ==
    IF k[1] = None THEN [id |-> i]
    ELSE [id |-> i, priority_analysis |-> PriorityAnalysis(k[1], k[2])]
SortCalls ==
    {[fn |-> "sort_by_priority", emails |-> [i \in DOMAIN ks |-> SortRecord(i, ks[i])]] :
        ks \in ListsOf(SortKeys, MaxSort)}

StatsRecords == {[id |-> "d", response_draft |-> ResponseDraft(TRUE)],
                 [id |-> "d", response_draft |-> ResponseDraft(FALSE)],
                 [id |-> "d"]}
StatsCalls ==
    {[fn |-> "get_response_stats", emails |-> l] : l \in ListsOf(StatsRecords, MaxStats)}

RefineCalls ==
    {[fn |-> "refine_draft", original_draft |-> d, user_feedback |-> f, llm |-> o] :
        d \in {<<>>, w_hello, <<" ">> \o w_greeting},
        f \in {<<>>, w_hello},
        o \in DraftOutcomes}

ClassifiedRecords ==
    {Put(m, "classification", Classification(c)) : m \in {m1, m2}, c \in {s_work, s_spam}}
    \cup {m3}
AnalyzedRecords ==
    {Put(Put(m1, "classification", Classification(s_work)),
         "priority_analysis", PriorityAnalysis(s_high, 10)),
     Put(Put(m2, "classification", Classification(s_spam)),
         "priority_analysis", PriorityAnalysis(s_low, 2)),
     Put(Put(m3, "classification", Classification(s_internal)),
         "priority_analysis", PriorityAnalysis(s_medium, 9)),
     m2}

\* the parts payloads are made of: text parts with and without data, and an
\* attachment
Part(mimeType, body) == [mimeType |-> mimeType, body |-> body]
NoData == [size |-> 0]
h_debug == <<"<p>", " ">> \o w_debug \o <<" ", " ", "<b>">> \o w_hello
               \o <<"</b>", "<script>", "x", "</script>", "</p>", "NL">>
Parts ==
    {Part("text/plain", [data |-> B64(<<" ">> \o w_hello \o <<"NL">>)]),
     Part("text/plain", NoData),
     Part("text/html", [data |-> B64(h_debug)]),
     Part("text/html", NoData),
     Part("image/png", [data |-> B64(<<"x">>)])}
Payloads ==
    {[mimeType |-> "multipart/alternative", body |-> NoData, parts |-> ps] :
        ps \in ListsOf(Parts, MaxParts)}
    \cup Parts
BodyCalls == {[fn |-> "get_email_body", payload |-> p] : p \in Payloads}

\* the connect button pressed in each environment
ConnectCalls == {[fn |-> "connect", env |-> e] : e \in AuthEnvironments}

\* the counts a direct caller of get_emails asks for
RequestedCounts == {0, 1, 2, 49, 50, 51, 60}

MailCalls ==
    {[fn |-> "get_emails", client |-> c, max_results |-> n, listing |-> l] :
        c \in {"unset", "connected"}, n \in RequestedCounts, l \in Listings}

BatchFns == {"batch_classify", "batch_analyze", "batch_draft"}
BatchCalls ==
    {[fn |-> "batch_classify", emails |-> l] : l \in ListsOf(Pool, MaxBatch)}
    \cup {[fn |-> "batch_analyze", emails |-> l] : l \in ListsOf(ClassifiedRecords, MaxBatch)}
    \cup {[fn |-> "batch_draft", emails |-> l] : l \in ListsOf(AnalyzedRecords, MaxBatch)}

\* c is one of the invocations the model draws
IsDirectCall(c) ==
    \/ c \in ClassifyCalls \/ c \in AnalyzeCalls \/ c \in UrgencyCalls \/ c \in DraftCalls \/ c \in ToneCalls
    \/ c \in SortCalls \/ c \in StatsCalls \/ c \in RefineCalls \/ c \in BatchCalls
    \/ c \in MailCalls \/ c \in BodyCalls \/ c \in ConnectCalls

Pending == [kind |-> "pending"]

\* what the caller receives of an operation's outcome
Outcome(r) ==
    IF r.kind = "raise" THEN [kind |-> "raise", exc |-> r.exc]
    ELSE [kind |-> "return", value |-> r.value]

\* a direct call ran to its end with outcome r, its model calls logged
Finish(stage, id, r) ==
    /\ ret' = Outcome(r)
    /\ llm_log' = Logged(stage, [id |-> id], r.calls)
    /\ pc' = "done"
    /\ UNCHANGED <<mail_log, cause, api_key, authenticated, emails, analyzed_emails, rendered, caller,
                   batch_in, results, idx, gmail_client, call>>

Calling(fn) == pc = "call" /\ call.fn = fn

Call_get_email_body ==
    /\ Calling("get_email_body")
    /\ Finish("-", "-", Returned(get_email_body(call.payload), 0))

\* main's connect handler on a fresh session; ret holds what authenticate did
Call_connect ==
    /\ Calling("connect")
    /\ Connected(authenticate(call.env))
    /\ ret' = authenticate(call.env)
    /\ pc' = "done"
    /\ UNCHANGED <<mail_log, cause, api_key, emails, analyzed_emails, caller, batch_in,
                   results, idx, llm_log, call>>

Call_get_emails ==
    /\ Calling("get_emails")
    /\ ret' = Outcome(get_emails(call.client, call.max_results, call.listing))
    /\ mail_log' = mail_requests(call.client, call.max_results, call.listing)
    /\ pc' = "done"
    /\ UNCHANGED <<cause, api_key, authenticated, emails, analyzed_emails, rendered,
                   caller, batch_in, results, idx, llm_log, gmail_client, call>>

Call_classify ==
    /\ Calling("classify")
    /\ Finish("classify", call.email.id, classify(call.email, call.llm))

Call_analyze ==
    /\ Calling("analyze")
    /\ Finish("analyze", call.email.id,
              analyze(call.email, call.classification, call.llm))

Call_draft_response ==
    /\ Calling("draft_response")
    /\ Finish("draft", call.email.id,
              draft_response(call.email, call.classification,
                             call.priority_analysis, call.llm))

Call_select_tone ==
    /\ Calling("select_tone")
    /\ Finish("-", "-", Returned(select_tone(call.category, call.priority), 0))

Call_sort_by_priority ==
    /\ Calling("sort_by_priority")
    /\ Finish("-", "-", Returned(sort_by_priority(call.emails), 0))

Call_get_response_stats ==
    /\ Calling("get_response_stats")
    /\ Finish("-", "-", get_response_stats(call.emails))

Call_refine_draft ==
    /\ Calling("refine_draft")
    /\ Finish("refine", "-", refine_draft(call.original_draft, call.user_feedback, call.llm))

-----------------------------------------------------------------------------
(* Specifications *)

SessionStart ==
    /\ authenticated = FALSE
    /\ emails = <<>>
    /\ analyzed_emails = <<>>
    /\ rendered = "none"
    /\ gmail_client = "unset"
    /\ llm_log = <<>>
    /\ results = <<>>
    /\ cause = "none"
    /\ mail_log = <<>>

\* the application after its first script run, nothing clicked yet
Init ==
    /\ api_key \in BOOLEAN
    /\ SessionStart
    /\ pc = "idle"
    /\ caller = "none"
    /\ batch_in = <<>>
    /\ idx = 0
    /\ call = [fn |-> "none"]
    /\ ret = Pending

Batch ==
    \/ ClassifyIter \/ ClassifyReturn
    \/ AnalyzeIter \/ AnalyzeReturn
    \/ DraftIter \/ DraftReturn

Next ==
    \/ Connect \/ Reconnect \/ Refresh \/ AnalyzeStart
    \/ Batch

Spec == Init /\ [][Next]_vars

\* one operation of an agent invoked directly, outside the application
InitDirect ==
    /\ api_key = TRUE
    /\ SessionStart
    /\ IsDirectCall(call)
    /\ ret = Pending
    /\ caller = "direct"
    /\ pc = (IF call.fn \in BatchFns THEN call.fn ELSE "call")
    /\ batch_in = (IF call.fn \in BatchFns THEN call.emails ELSE <<>>)
    /\ idx = (IF call.fn \in BatchFns THEN 1 ELSE 0)

NextDirect ==
    \/ Call_classify \/ Call_analyze \/ Call_draft_response \/ Call_select_tone
    \/ Call_sort_by_priority \/ Call_get_response_stats \/ Call_refine_draft
    \/ Call_get_emails \/ Call_get_email_body \/ Call_connect
    \/ Batch

SpecDirect == InitDirect /\ [][NextDirect]_vars

-----------------------------------------------------------------------------
(* Properties *)

Done(fn) == pc = "done" /\ call.fn = fn

\* C1: classify returns a record whose category is one of urgent, work,
\* marketing, internal, spam or raises ValueError, and analyze returns a
\* record whose priority is one of high, medium, low or raises ValueError,
\* whatever the completion; a completion without the label, an empty one and
\* a failed call all raise, none is given a default.
C1_ValidOrValueError ==
    /\ Done("classify") =>
          /\ \/ ret.kind = "raise" /\ ret.exc = "ValueError"
             \/ ret.kind = "return"
                /\ ret.value.category \in {s_urgent, s_work, s_marketing, s_internal, s_spam}
          /\ (call.llm.kind # "text" \/ ~Contains(l_category, call.llm.content))
                => ret.kind = "raise"
    /\ Done("analyze") =>
          /\ \/ ret.kind = "raise" /\ ret.exc = "ValueError"
             \/ ret.kind = "return"
                /\ ret.value.priority \in {s_high, s_medium, s_low}
          /\ (call.llm.kind # "text" \/ ~Contains(l_priority, call.llm.content))
                => ret.kind = "raise"

\* C1 witness: a completion that names a category outside the set made
\* classify raise
C1_Witness ==
    /\ Done("classify")
    /\ call.llm = Text(l_category \o <<":", " ">> \o <<"p","e","r","s","o","n","a","l">>)
    /\ ret.kind = "raise"

\* C2: for a message classified spam or marketing, draft_response returns
\* should_respond false, draft, tone and suggested_subject None and the fixed
\* reason, and makes no model call, whatever the priority.
C2_NoDraftForSpam ==
    (/\ Done("draft_response")
     /\ "category" \in DOMAIN call.classification
     /\ call.classification.category \in {s_spam, s_marketing})
    => /\ ret.kind = "return"
       /\ ret.value.should_respond = FALSE
       /\ ret.value.draft = None
       /\ ret.value.tone = None
       /\ ret.value.suggested_subject = None
       /\ ret.value.reason = ReasonNoResponse
       /\ llm_log = <<>>

\* C2 witness: a high-priority marketing message was answered without a call
\* to a model service that would have failed
C2_Witness ==
    /\ Done("draft_response")
    /\ call.classification = Classification(s_marketing)
    /\ call.priority_analysis = PriorityAnalysis(s_high, 8)
    /\ call.llm = Failure
    /\ ret.kind = "return"

HasPriority(x) == "priority_analysis" \in DOMAIN x
RankOf(x) ==
    CASE x.priority_analysis.priority = s_high -> 3
      [] x.priority_analysis.priority = s_medium -> 2
      [] x.priority_analysis.priority = s_low -> 1

\* C3: sort_by_priority returns a permutation of its input with every high
\* message before every medium and every medium before every low, a higher
\* urgency_score first within a priority, and messages equal in both in their
\* input order.  (The i-th record of a drawn input has id i.)
C3_SortedStable ==
    Done("sort_by_priority") =>
        /\ ret.kind = "return"
        /\ Len(ret.value) = Len(call.emails)
        /\ {ret.value[i].id : i \in DOMAIN ret.value} = DOMAIN call.emails
        /\ \A i \in DOMAIN ret.value : ret.value[i] = call.emails[ret.value[i].id]
        /\ \A i, j \in DOMAIN ret.value :
              (i < j /\ HasPriority(ret.value[i]) /\ HasPriority(ret.value[j])) =>
                 LET a == ret.value[i]
                     b == ret.value[j]
                 IN  /\ RankOf(a) >= RankOf(b)
                     /\ RankOf(a) = RankOf(b) =>
                           a.priority_analysis.urgency_score >= b.priority_analysis.urgency_score
                     /\ (/\ RankOf(a) = RankOf(b)
                         /\ a.priority_analysis.urgency_score = b.priority_analysis.urgency_score)
                           => a.id < b.id

\* C3 witness: medium/9, high/5, high/5 came back as the two high messages in
\* their input order, then the medium one
C3_Witness ==
    /\ Done("sort_by_priority")
    /\ call.emails = <<SortRecord(1, <<s_medium, 9>>), SortRecord(2, <<s_high, 5>>),
                       SortRecord(3, <<s_high, 5>>)>>
    /\ ret.value = <<call.emails[2], call.emails[3], call.emails[1]>>

\* C4: the urgency_score of every record analyze returns is an integer from
\* 0 to 10, for every priority and every set of urgency keywords present.
C4_UrgencyInRange ==
    (Done("analyze") /\ ret.kind = "return") => ret.value.urgency_score \in 0..10

\* C4 witness: a high-priority message whose body holds all nine keywords and
\* whose subject holds one more got the score 10
C4_Witness ==
    /\ Done("analyze")
    /\ call.email.body = BodyOf(1..Len(urgent_keywords), 1)
    /\ call.email.subject = w_URGENT \o <<" ">>
    /\ ret.kind = "return"
    /\ ret.value.priority = s_high
    /\ ret.value.urgency_score = 10

\* the field a batch operation adds
FieldOf(fn) ==
    CASE fn = "batch_classify" -> "classification"
      [] fn = "batch_analyze" -> "priority_analysis"
      [] fn = "batch_draft" -> "response_draft"

\* C5: when no message fails, batch_classify, batch_analyze and batch_draft
\* return a list as long as their input whose i-th record is the i-th input
\* record with the operation's field added (same id at every index), the
\* empty list included.
C5_BatchKeepsOrderAndCount ==
    (pc = "done" /\ call.fn \in BatchFns /\ ret.kind = "return") =>
        /\ Len(ret.value) = Len(call.emails)
        /\ \A i \in DOMAIN ret.value :
              /\ ret.value[i].id = call.emails[i].id
              /\ DOMAIN ret.value[i] = DOMAIN call.emails[i] \cup {FieldOf(call.fn)}
              /\ \A k \in DOMAIN call.emails[i] \ {FieldOf(call.fn)} :
                    ret.value[i][k] = call.emails[i][k]

\* C5 witness: batch_classify returned two records for the input m3, m1, in
\* that order
C5_Witness ==
    /\ Done("batch_classify")
    /\ call.emails = <<m3, m1>>
    /\ ret.kind = "return"
    /\ Len(ret.value) = 2
    /\ ret.value[1].id = "m3"

\* a step of a run of analyze_emails: its start, or a step inside a stage
InRun == caller = "analyze_emails" /\ pc \in BatchFns
RunStart == pc = "idle" /\ pc' = "batch_classify"
\* the step in which the message at idx fails: a loop body that adds no
\* record to the results
FailStep == InRun /\ idx <= Len(batch_in) /\ Len(results') # Len(results) + 1
\* the agent method a stage calls on each message, as the log names it
MethodOf(stage) ==
    CASE stage = "batch_classify" -> "classify"
      [] stage = "batch_analyze" -> "analyze"
      [] stage = "batch_draft" -> "draft"
\* the step that ends a run whose three stages succeeded
StoreStep == InRun /\ pc = "batch_draft" /\ idx > Len(batch_in)

\* C6: when the k-th message fails in a batch stage of analyze_emails, the
\* run ends there: at most the failing call is added to the log, no later
\* stage and no sort runs, no partial list is kept or returned, and
\* analyzed_emails is what it was before the run (no step of a run but the
\* final store changes it); once the run is over no model call happens until
\* a new run starts the log afresh.
C6_FailureAbortsRun ==
    [][/\ FailStep =>
             /\ pc' = "idle"
             /\ results' = <<>> /\ batch_in' = <<>>
             /\ ret' = ret
             /\ analyzed_emails' = analyzed_emails
             /\ \/ llm_log' = llm_log
                \/ llm_log' = Append(llm_log, <<MethodOf(pc), batch_in[idx].id>>)
       /\ ((InRun \/ RunStart) /\ ~StoreStep) => analyzed_emails' = analyzed_emails
       /\ pc = "idle" => (llm_log' = llm_log \/ llm_log' = <<>>)
      ]_vars

\* C6 witness: a run over two messages failed at the first message of the
\* priority stage, after two classification calls and one priority call
C6_Witness ==
    /\ pc = "idle"
    /\ rendered = "config"
    /\ Len(emails) = 2
    /\ Len(llm_log) = 3
    /\ llm_log[3] = <<"analyze", emails[1].id>>
    /\ analyzed_emails = <<>>

\* C7: refine_draft never raises, and when the model call fails it returns
\* original_draft unchanged, for every draft and feedback.
C7_RefineFallsBack ==
    Done("refine_draft") =>
        /\ ret.kind = "return"
        /\ call.llm.kind # "text" => ret.value = call.original_draft

\* C7 witness: the call failed and the draft came back as given, leading
\* space included
C7_Witness ==
    /\ Done("refine_draft")
    /\ call.llm = Failure
    /\ call.original_draft = <<" ">> \o w_greeting
    /\ ret = [kind |-> "return", value |-> <<" ">> \o w_greeting]

\* the tone the specification gives a (category, priority) pair
ToneTable(category, priority) ==
    CASE category = s_urgent -> s_formal
      [] category # s_urgent /\ priority = s_high -> s_formal
      [] category = s_internal /\ priority # s_high -> s_friendly
      [] OTHER -> s_formal

\* C8: tone selection gives formal for an urgent category or a high
\* priority, else friendly for an internal category, else formal; the tone
\* is formal or friendly, and the tone of a draft depends on the category
\* and the priority alone (not on the message or the completion).
C8_ToneTable ==
    /\ Done("select_tone") =>
          /\ ret.value = ToneTable(call.category, call.priority)
          /\ ret.value \in {s_formal, s_friendly}
    /\ (Done("draft_response") /\ ret.kind = "return" /\ ret.value.should_respond) =>
          ret.value.tone = ToneTable(Get(call.classification, "category", s_work),
                                     Get(call.priority_analysis, "priority", s_medium))

\* C8 witness: an internal message of high priority got the formal tone
C8_Witness ==
    /\ Done("select_tone")
    /\ call.category = s_internal
    /\ call.priority = s_high
    /\ ret.value = s_formal

\* the records of a list that say should_respond
Responding(l) ==
    {i \in DOMAIN l : /\ "response_draft" \in DOMAIN l[i]
                      /\ l[i].response_draft.should_respond}

\* C9: get_response_stats returns total = the length of the list,
\* need_response = the number of records with should_respond true,
\* no_response = total - need_response, and response_rate = the tenth of a
\* percent nearest to need_response / total * 100 (75.0 for 3 of 4), or 0
\* for the empty list, and does not raise.  Rates are in tenths of a percent.
C9_ResponseStats ==
    Done("get_response_stats") =>
        LET n == Len(call.emails)
            k == Cardinality(Responding(call.emails))
            d == ret.value.response_rate * n - k * 1000
        IN  /\ ret.kind = "return"
            /\ ret.value.total = n
            /\ ret.value.need_response = k
            /\ ret.value.no_response = n - k
            /\ n = 0 => ret.value.response_rate = 0
            /\ n > 0 => (2 * d <= n /\ -2 * d <= n)
            /\ (n = 4 /\ k = 3) => ret.value.response_rate = 750

\* C9 witness: three of four drafted messages need a response, rate 75.0
C9_Witness ==
    /\ Done("get_response_stats")
    /\ Len(call.emails) = 4
    /\ Cardinality(Responding(call.emails)) = 3
    /\ ret.value.response_rate = 750

\* C10: with the API credential absent, analyze_emails ends with the
\* configuration error before anything else: no fetch, no stage, no model
\* call, and emails and analyzed_emails stay empty as they were.
C10_NoKeyNoRun ==
    ~api_key =>
        /\ pc = "idle"
        /\ llm_log = <<>>
        /\ emails = <<>>
        /\ analyzed_emails = <<>>
        /\ rendered \notin {"progress", "warning", "generic"}

\* C10 witness: an authenticated session without the credential pressed
\* start and was shown the configuration error
C10_Witness ==
    /\ ~api_key
    /\ authenticated
    /\ rendered = "config"
    /\ emails = <<>>

\* the place of a stage in the pipeline, by the name of its agent method
StageRank(method) ==
    CASE method = "classify" -> 1
      [] method = "analyze" -> 2
      [] method = "draft" -> 3

\* the model calls of one stage, in the order they were made
LogOf(method) == SelectSeq(llm_log, LAMBDA e : e[1] = method)

\* the position of a fetched message in the session's emails
PosOf(id) == CHOOSE i \in DOMAIN emails : emails[i].id = id

\* the calls of a stage went through the messages in input order
InInputOrder(log) ==
    \A i, j \in DOMAIN log : i < j => PosOf(log[i][2]) < PosOf(log[j][2])

\* the log of a run whose fetched list is in emails: stage after stage over
\* the whole batch, each stage in input order
StagesInOrder ==
    /\ \A i, j \in DOMAIN llm_log :
          i < j => StageRank(llm_log[i][1]) <= StageRank(llm_log[j][1])
    /\ emails # <<>> =>
          /\ \A e \in Range(llm_log) : \E i \in DOMAIN emails : emails[i].id = e[2]
          /\ InInputOrder(LogOf("classify"))
          /\ InInputOrder(LogOf("analyze"))
          /\ InInputOrder(LogOf("draft"))
          /\ LogOf("analyze") # <<>> => Len(LogOf("classify")) = Len(emails)
          /\ LogOf("draft") # <<>> => Len(LogOf("analyze")) = Len(emails)

\* the store of a run's sorted list comes after the drafting stage went
\* through the whole batch, every drafted message's call made
SortAfterDrafts ==
    (analyzed_emails' # analyzed_emails /\ analyzed_emails' # <<>>) =>
        /\ StoreStep
        /\ llm_log' = llm_log
        /\ Len(results) = Len(emails)
        /\ \A i \in DOMAIN results :
              results[i].response_draft.should_respond =>
                 <<"draft", results[i].id>> \in Range(llm_log)

\* C11: in every run of analyze_emails every classification call precedes
\* every priority call and every priority call precedes every drafting call,
\* a stage starts only when the stage before went through the whole batch,
\* the sorted list is stored only after the last drafting call, and within a
\* stage the calls follow the input order, one call per step.
C11_StagesSequential ==
    /\ []StagesInOrder
    /\ [][SortAfterDrafts /\ Len(llm_log') <= Len(llm_log) + 1]_vars

\* C11 witness: a run over two messages ended with two classification calls,
\* then two priority calls, then a drafting call, and stored its sorted list
C11_Witness ==
    /\ pc = "idle"
    /\ Len(emails) = 2
    /\ Len(analyzed_emails) = 2
    /\ Len(llm_log) >= 5
    /\ llm_log[2][1] = "classify"
    /\ llm_log[3][1] = "analyze"
    /\ llm_log[5][1] = "draft"

\* the record out carries every field of the record in but the stage's own
Carries(out, inp, field) ==
    /\ DOMAIN out = DOMAIN inp \cup {field}
    /\ \A k \in DOMAIN inp \ {field} : out[k] = inp[k]

\* C12: each batch stage only adds its own field: every record a batch
\* operation has produced carries the message fields and the earlier stages'
\* fields of its input record unchanged, and the list handed to a batch
\* operation or to sort_by_priority, and its records, are what the caller
\* passed, during the operation and after it.
C12_StagesOnlyAdd ==
    /\ [](call.fn \in BatchFns =>
            /\ pc \in BatchFns => batch_in = call.emails
            /\ \A i \in DOMAIN results :
                  Carries(results[i], call.emails[i], FieldOf(call.fn))
            /\ (pc = "done" /\ ret.kind = "return") =>
                  \A i \in DOMAIN ret.value :
                     Carries(ret.value[i], call.emails[i], FieldOf(call.fn)))
    /\ [][call' = call]_vars

\* C12 witness: batch_draft returned m1's record with its classification and
\* its priority_analysis as they came in, the draft added
C12_Witness ==
    /\ Done("batch_draft")
    /\ ret.kind = "return"
    /\ Len(ret.value) = 2
    /\ ret.value[2].id = "m1"
    /\ ret.value[2].classification = Classification(s_work)
    /\ ret.value[2].priority_analysis = PriorityAnalysis(s_high, 10)
    /\ ret.value[2].response_draft.should_respond
    /\ ret.value[2].body = m1.body

\* a completion with nothing but white space in it, the empty one included
Blank(t) == \A i \in DOMAIN t : IsSpace(t[i])

\* the category draft_response reads from a classification
CategoryOf(classification) == Get(classification, "category", s_work)

\* C13: for a message whose category is not spam or marketing, draft_response
\* raises ValueError when the model call fails or gives no content, empty
\* content or white space only, and otherwise returns should_respond true
\* with a non-empty draft, the selected tone and the subject "Re: " followed
\* by the message's subject; it never returns should_respond true with an
\* empty or None draft.
C13_DraftOrValueError ==
    /\ (Done("draft_response")
        /\ CategoryOf(call.classification) \notin {s_spam, s_marketing}) =>
          IF call.llm.kind # "text" \/ Blank(call.llm.content)
          THEN ret.kind = "raise" /\ ret.exc = "ValueError"
          ELSE /\ ret.kind = "return"
               /\ ret.value.should_respond = TRUE
               /\ ret.value.draft # None
               /\ Len(ret.value.draft) > 0
               /\ ~Blank(ret.value.draft)
               /\ ret.value.tone =
                     ToneTable(CategoryOf(call.classification),
                               Get(call.priority_analysis, "priority", s_medium))
               /\ ret.value.suggested_subject = <<"R", "e", ":", " ">> \o call.email.subject
    /\ (Done("draft_response") /\ ret.kind = "return" /\ ret.value.should_respond) =>
          (ret.value.draft # None /\ ret.value.draft # <<>>)

\* C13 witness: a completion of white space only made draft_response raise
\* ValueError for a work message
C13_Witness ==
    /\ Done("draft_response")
    /\ call.classification = Classification(s_work)
    /\ call.llm = Text(<<" ", "NL">>)
    /\ ret = [kind |-> "raise", exc |-> "ValueError"]

\* the exceptions of a request to the model service that did not get through
ServiceFailures == {"APIError", "APIConnectionError"}

\* C14: no error escapes analyze_emails, and the rendered message tells the
\* error classes apart: the missing credential is rendered as a
\* configuration problem, and a failed request to the model service in a
\* batch stage is rendered as a generic failure, not as a configuration
\* problem.
C14_ErrorClassesDistinguished ==
    /\ pc \in {"idle"} \cup BatchFns
    /\ (pc = "idle" /\ rendered \in {"config", "generic"}) =>
          /\ ~api_key => rendered = "config"
          /\ cause \in ServiceFailures => rendered = "generic"

\* C14 witness: the model service could not be reached for the first
\* message's classification, and the session shows the configuration error
C14_Witness ==
    /\ pc = "idle"
    /\ api_key
    /\ cause = "APIConnectionError"
    /\ llm_log = <<<<"classify", emails[1].id>>>>
    /\ rendered = "config"

\* the positions in the listing of the records a fetch returned
ListedAt(id) == CHOOSE i \in DOMAIN call.listing.messages : call.listing.messages[i].id = id

\* C15: for every requested count get_emails asks the mail service for
\* min(requested, 50) messages, once, and returns at most that many message
\* records, each one a listed message, in the order the service listed them;
\* on a client that has not authenticated it raises and sends the mail
\* service nothing.
C15_FetchClamped ==
    Done("get_emails") =>
        IF call.client # "connected"
        THEN ret.kind = "raise" /\ mail_log = <<>>
        ELSE LET asked == IF call.max_results <= 50 THEN call.max_results ELSE 50
             IN  /\ mail_log # <<>>
                 /\ mail_log[1] = <<"list", asked>>
                 /\ \A i \in DOMAIN mail_log : i > 1 => mail_log[i][1] = "get"
                 /\ Len(mail_log) <= 1 + asked
                 /\ ret.kind = "return" =>
                       /\ Len(ret.value) <= asked
                       /\ \A i \in DOMAIN ret.value :
                             /\ \E j \in DOMAIN call.listing.messages :
                                   ret.value[i] = call.listing.messages[j]
                             /\ <<"get", ret.value[i].id>> \in Range(mail_log)
                       /\ \A i, j \in DOMAIN ret.value :
                             i < j => ListedAt(ret.value[i].id) < ListedAt(ret.value[j].id)

\* C15 witness: asked for 60 messages, get_emails requested 50 and returned
\* the inbox's two messages in the listed order
C15_Witness ==
    /\ Done("get_emails")
    /\ call.max_results = 60
    /\ call.listing.kind = "list"
    /\ call.listing.messages = <<m3, m1>>
    /\ mail_log[1] = <<"list", 50>>
    /\ ret = [kind |-> "return", value |-> <<m3, m1>>]

\* the text parts of the payload under test that carry data
PartsWithData(mimeType) ==
    {i \in DOMAIN call.payload.parts :
        /\ call.payload.parts[i].mimeType = mimeType
        /\ "data" \in DOMAIN call.payload.parts[i].body}

\* C16: for a multipart message the extracted body is the content of a
\* text/plain part that carries data whenever there is one, whatever the
\* order of the parts; the text of the text/html part is the body only when
\* no text/plain part carries data.
C16_PlainPreferred ==
    (Done("get_email_body") /\ "parts" \in DOMAIN call.payload) =>
        IF PartsWithData("text/plain") # {}
        THEN \E i \in PartsWithData("text/plain") :
                ret.value = Strip(b64decode(call.payload.parts[i].body.data))
        ELSE IF PartsWithData("text/html") # {}
        THEN \E i \in PartsWithData("text/html") :
                ret.value = Strip(html_to_text(b64decode(call.payload.parts[i].body.data)))
        ELSE ret.value = <<>>

\* C16 witness: the text/html part comes first, the text/plain part second,
\* both with data, and the body is the text of the markup
C16_Witness ==
    /\ Done("get_email_body")
    /\ "parts" \in DOMAIN call.payload
    /\ Len(call.payload.parts) = 2
    /\ call.payload.parts[1] = Part("text/html", [data |-> B64(h_debug)])
    /\ call.payload.parts[2] = Part("text/plain", [data |-> B64(<<" ">> \o w_hello \o <<"NL">>)])
    /\ ret.value = w_debug \o <<" ">> \o w_hello

\* the stored credential of the environment under test: loaded and valid,
\* or loaded, expired and refreshable
StoredValid == call.env.token_file /\ call.env.valid
StoredRefreshable ==
    call.env.token_file /\ ~call.env.valid /\ call.env.expired /\ call.env.refresh_token

\* C17: authenticate reuses a valid stored credential with no refresh and no
\* interactive flow; refreshes an expired credential that has a refresh
\* token, with no interactive flow; otherwise runs the interactive flow only
\* if the client-authorization file exists, and without that file raises
\* FileNotFoundError and leaves the service unset, the session's
\* authenticated flag staying false.  The session is marked authenticated
\* only when authenticate returned, with the service set.
C17_AuthDecision ==
    Done("connect") =>
        /\ StoredValid =>
              ret.kind = "return" /\ ~ret.refreshed /\ ~ret.flow /\ ~ret.saved
        /\ StoredRefreshable => ret.refreshed /\ ~ret.flow
        /\ ~StoredValid => (ret.refreshed <=> StoredRefreshable)
        /\ (~StoredValid /\ ~StoredRefreshable) =>
              /\ ret.flow <=> call.env.credentials_file
              /\ ~call.env.credentials_file =>
                    /\ ret.kind = "raise" /\ ret.exc = "FileNotFoundError"
                    /\ ~ret.service
                    /\ ~authenticated
                    /\ gmail_client = "unset"
                    /\ rendered = "setup_guide"
        /\ authenticated <=> ret.kind = "return"
        /\ authenticated => (ret.service /\ gmail_client = "connected")
        /\ ret.kind = "raise" => (~ret.service /\ gmail_client = "unset")

\* C17 witness: a stored credential that is neither valid nor refreshable and
\* no client-authorization file: FileNotFoundError, session not authenticated
C17_Witness ==
    /\ Done("connect")
    /\ call.env.token_file /\ ~call.env.valid /\ call.env.expired
    /\ ~call.env.refresh_token
    /\ ~call.env.credentials_file
    /\ ret.kind = "raise" /\ ret.exc = "FileNotFoundError"
    /\ ~authenticated

\* the keywords worth two points and those worth one
StrongKeywords ==
    {<<"ko:gin", "ko:geup">>, <<"ko:jeug", "ko:si">>,
     <<"u","r","g","e","n","t">>, <<"a","s","a","p">>}
WeakKeywords ==
    {<<"ko:bul", "ko:man">>, <<"ko:hwan", "ko:bul">>, <<"ko:o", "ko:ryu">>,
     <<"e","r","r","o","r">>, <<"b","u","g">>}

\* the keywords of a set that occur in the lower-cased subject or body of the
\* message under test
Occurring(keywords) ==
    {w \in keywords : \/ Contains(w, Lower(call.email.subject))
                      \/ Contains(w, Lower(call.email.body))}

\* how often a text occurs in another
Occurrences(w, text) == Cardinality({p \in DOMAIN text : MatchesAt(w, text, p)})

\* C18: the urgency score is min(10, base + points), base being 8 for high,
\* 5 for medium and 2 for low, and points being 2 for each of the four
\* strong keywords and 1 for each of the five weak keywords that occurs in
\* the lower-cased subject or body, counted once however often and wherever
\* it occurs; the score is never below the base.
C18_UrgencyFormula ==
    (Done("analyze") /\ ret.kind = "return") =>
        LET base == CASE ret.value.priority = s_high -> 8
                      [] ret.value.priority = s_medium -> 5
                      [] ret.value.priority = s_low -> 2
            points == 2 * Cardinality(Occurring(StrongKeywords))
                      + Cardinality(Occurring(WeakKeywords))
        IN  /\ ret.value.urgency_score = (IF base + points < 10 THEN base + points ELSE 10)
            /\ ret.value.urgency_score >= base

\* C18 witness: "urgent" twice in the subject and once in the body, "bug" in
\* the body, priority low: 2 + 2 + 1
C18_Witness ==
    /\ Done("analyze")
    /\ Occurrences(s_urgent, Lower(call.email.subject)) = 2
    /\ Occurrences(s_urgent, Lower(call.email.body)) = 1
    /\ Occurring(WeakKeywords) = {<<"b","u","g">>}
    /\ Occurring(StrongKeywords) = {s_urgent}
    /\ ret.kind = "return"
    /\ ret.value.priority = s_low
    /\ ret.value.urgency_score = 5

\* the stored records whose category asks for a reply
Answerable ==
    {i \in DOMAIN analyzed_emails :
        analyzed_emails[i].classification.category \notin {s_spam, s_marketing}}

\* a run of analyze_emails ended with its sorted list stored
RunSucceeded == pc = "idle" /\ analyzed_emails # <<>>

\* C19: the model is called once per message per stage and a call is never
\* repeated: no stage calls the model twice for one message, whether the
\* call succeeded or failed, and a run that succeeded over n messages made n
\* classification calls, n priority calls and one drafting call for each
\* message whose category is neither spam nor marketing.
C19_CallsExactlyOnce ==
    /\ \A i, j \in DOMAIN llm_log : i # j => llm_log[i] # llm_log[j]
    /\ RunSucceeded =>
          /\ Len(analyzed_emails) = Len(emails)
          /\ Len(LogOf("classify")) = Len(emails)
          /\ Len(LogOf("analyze")) = Len(emails)
          /\ Len(LogOf("draft")) = Cardinality(Answerable)

\* C19 witness: a run over two messages, one of them spam, ended with two
\* classification calls, two priority calls and one drafting call
C19_Witness ==
    /\ RunSucceeded
    /\ Len(emails) = 2
    /\ Cardinality(Answerable) = 1
    /\ \E i \in DOMAIN analyzed_emails : analyzed_emails[i].classification.category = s_spam
    /\ Len(LogOf("classify")) = 2
    /\ Len(LogOf("analyze")) = 2
    /\ Len(LogOf("draft")) = 1

\* C20: whenever the page is shown, a non-empty session emails list comes
\* with a non-empty analyzed_emails list.
C20_EmailsImplyResults ==
    Idle => (emails # <<>> => analyzed_emails # <<>>)

\* C20 witness: a run failed in a stage after a model call, and the page is
\* shown with the fetched messages in emails and no analyzed_emails
C20_Witness ==
    /\ Idle
    /\ rendered \in {"config", "generic"}
    /\ llm_log # <<>>
    /\ emails # <<>>
    /\ analyzed_emails = <<>>

\* results exist only in an authenticated session that holds fetched messages
ResultsNeedSession ==
    analyzed_emails # <<>> => (authenticated /\ emails # <<>>)

\* a step that stores results is taken by an authenticated session over the
\* messages it fetched; a step that ends the connection or empties emails
\* leaves emails and analyzed_emails both empty
StoredAndResetTogether ==
    /\ (analyzed_emails' # analyzed_emails /\ analyzed_emails' # <<>>) =>
          /\ authenticated /\ authenticated'
          /\ emails # <<>> /\ emails' = emails
          /\ {r.id : r \in Range(analyzed_emails')} = {m.id : m \in Range(emails)}
    /\ ((authenticated /\ ~authenticated') \/ (emails # <<>> /\ emails' = <<>>)) =>
          (emails' = <<>> /\ analyzed_emails' = <<>>)

\* C21: in every session state a non-empty analyzed_emails list comes with
\* authenticated true and a non-empty emails list; results are stored only by
\* an authenticated session after a non-empty fetch, and the reconnect and
\* refresh actions reset emails and analyzed_emails to empty together.
C21_ResultsImplySession ==
    []ResultsNeedSession /\ [][StoredAndResetTogether]_vars

\* C21 witness: the page is shown for an authenticated session that holds
\* two fetched messages and the two records analysed from them
C21_Witness ==
    /\ Idle
    /\ authenticated
    /\ Len(emails) = 2
    /\ Len(analyzed_emails) = 2
    /\ {r.id : r \in Range(analyzed_emails)} = {m.id : m \in Range(emails)}

=============================================================================
